---------------------------- MODULE Spec2Model ----------------------------
(***************************************************************************)
(* A model of the brother_pt label-printer driver: the BrotherPt session   *)
(* (printer.py) on top of the raster encoder (raster.py), driven against a *)
(* transport double that records every read and write call.                *)
(*                                                                         *)
(* One step of the model is one transport call of the session (or one      *)
(*  call/return of a public method); the session is single-threaded and    *)
(* synchronous, so nothing interleaves inside a step.                      *)
(*                                                                         *)
(* The command encoders, the status-frame layout and the media tables live *)
(* in brother_pt/cmd.py; where that file is needed the definitions below   *)
(* follow the written specification (they are marked `cmd.py').            *)
(***************************************************************************)
EXTENDS Integers, Sequences, FiniteSets, TLC

(***************************************************************************)
(* Bounds of the model.                                                    *)
(***************************************************************************)
\* Answers of the transport, within one call, that are not the expected one
\* and do not end the call (an empty or ignored read, a short write, a zero
\* write on a later chunk, an unexpected frame where one is discarded): the
\* "session" harness gives at most this many.
MaxOdd == 1

\* Pages of a print_images job.
MaxPages == 2

\* The cut margins (in pixels) a client asks for.
Margins == {0, 1}

\* The longest buffer of arbitrary content handed to compress_buffer
\* directly (longer ones are made of the groups of GroupPatterns).
MaxBuf == 10

(***************************************************************************)
(* Constants of printer.py.                                                *)
(***************************************************************************)
\* __init__: the four cached fields start as None.
NoneVal == -1

\* __write: data[length:(length+0x40)].
PACKET_SIZE == 64

\* __read: the default length, used by the polling reads of print_data.
READ_DEFAULT_LENGTH == 128

\* print_data: for _ in range(6).
FILLER_COUNT == 6

\* raster.py, compress_buffer: range(0, len(buffer), 8).
GROUP == 8

(***************************************************************************)
(* cmd.py: protocol constants.                                             *)
(***************************************************************************)
STATUS_MESSAGE_LENGTH == 32

PRINT_HEAD_PINS == 128

LINE_LENGTH_BYTES == 16

\* StatusOffsets
OFF_MEDIA_WIDTH == 10
OFF_MEDIA_TYPE == 11
OFF_STATUS_TYPE == 18
OFF_TAPE_COLOR == 24
OFF_TEXT_COLOR == 25

\* StatusType
ST_REPLY == 0
ST_PRINTING_COMPLETED == 1
ST_ERROR_OCCURRED == 2
ST_PHASE_CHANGE == 6

\* The closed enumerations: the byte codes each enum constructor accepts.
MediaTypeCodes == {0, 1, 3, 17, 23, 255}
TapeColorCodes == {1, 2, 3, 4, 5, 6, 7, 8, 9, 10, 255}
TextColorCodes == {1, 2, 4, 5, 8, 10, 255}

\* MediaWidthToTapeMargin.margin: media width (mm) -> print-head margin.
MarginTable == [w \in {4, 6, 9, 12, 18, 24} |->
                  CASE w = 4 -> 52 [] w = 6 -> 48 [] w = 9 -> 39
                    [] w = 12 -> 29 [] w = 18 -> 8 [] w = 24 -> 0]

SupportedWidths == DOMAIN MarginTable

\* MediaWidthToTapeMargin.to_print_width
ToPrintWidth(w) == PRINT_HEAD_PINS - 2 * MarginTable[w]

(***************************************************************************)
(* cmd.py: command frames.  A frame is its kind and the values it embeds;  *)
(* FrameLen is its length in bytes, which is all __write looks at.         *)
(***************************************************************************)
Frame(k, a) == [kind |-> k, arg |-> a]

invalidate == Frame("invalidate", <<>>)
initialize == Frame("initialize", <<>>)
status_information_request == Frame("status_information_request", <<>>)
enter_dynamic_command_mode == Frame("enter_dynamic_command_mode", <<>>)
enable_status_notification == Frame("enable_status_notification", <<>>)
print_information(d, mw) == Frame("print_information", <<Len(d), mw>>)
set_mode == Frame("set_mode", <<>>)
set_advanced_mode == Frame("set_advanced_mode", <<>>)
margin_amount(m) == Frame("margin_amount", <<m>>)
set_compression_mode == Frame("set_compression_mode", <<>>)
print_with_feeding == Frame("print_with_feeding", <<>>)
print_without_feeding == Frame("print_without_feeding", <<>>)

\* The number of frames gen_raster_commands yields: one per raster line.
RasterLineCount(d) == (Len(d) + LINE_LENGTH_BYTES - 1) \div LINE_LENGTH_BYTES

Min(a, b) == IF a < b THEN a ELSE b

\* gen_raster_commands: the i-th frame of the generator (1-based).
RasterCommand(d, i) ==
    Frame("raster", SubSeq(d, (i - 1) * LINE_LENGTH_BYTES + 1,
                              Min(i * LINE_LENGTH_BYTES, Len(d))))

gen_raster_commands(d) == [i \in 1..RasterLineCount(d) |-> RasterCommand(d, i)]

FrameLen(f) ==
    CASE f.kind = "invalidate" -> 100
      [] f.kind = "initialize" -> 2
      [] f.kind = "status_information_request" -> 3
      [] f.kind = "enter_dynamic_command_mode" -> 4
      [] f.kind = "enable_status_notification" -> 4
      [] f.kind = "print_information" -> 13
      [] f.kind = "set_mode" -> 4
      [] f.kind = "set_advanced_mode" -> 4
      [] f.kind = "margin_amount" -> 5
      [] f.kind = "set_compression_mode" -> 2
      [] f.kind = "raster" -> 3 + Len(f.arg)
      [] f.kind = "filler" -> 1
      [] f.kind = "print_with_feeding" -> 1
      [] f.kind = "print_without_feeding" -> 1

(***************************************************************************)
(* printer.py, print_data: the single-byte 0x5A frame.                     *)
(***************************************************************************)
filler == Frame("filler", <<90>>)

(***************************************************************************)
(* Bitmaps.  A bitmap is its geometry, its colour mode and a rule giving   *)
(* the sample at each position (the Bitmap capability of PIL): `pat' is    *)
(* the picture, `rot' says whether it has been transposed by ROTATE_90 and *)
(* `lut' which point() table select_raster_channel has applied.            *)
(***************************************************************************)
Image(w, h, m, p) ==
    [width |-> w, height |-> h, mode |-> m, pat |-> p, rot |-> FALSE, lut |-> "none"]

\* The grey level of picture p at (x, y) of the unrotated bitmap.
Sample(p, x, y) ==
    CASE p = "white" -> 255
      [] p = "black" -> 0
      [] p = "stripes" -> IF y % 2 = 0 THEN 0 ELSE 255
      [] p = "grey" -> IF (x + y) % 3 = 0 THEN 127 ELSE IF (x + y) % 3 = 1 THEN 128 ELSE 254

Lut(l, v) ==
    CASE l = "none" -> v
      [] l = "lt255" -> IF v < 255 THEN 255 ELSE 0
      [] l = "lt128" -> IF v < 128 THEN 255 ELSE 0

\* Image.getpixel((x, y)); a ROTATE_90 bitmap of an old bitmap of width W
\* shows at (x, y) the old sample at (W - 1 - y, x), and W is its height.
getpixel(img, x, y) ==
    IF img.rot
    THEN Lut(img.lut, Sample(img.pat, img.height - 1 - y, x))
    ELSE Lut(img.lut, Sample(img.pat, x, y))

(***************************************************************************)
(* raster.py                                                               *)
(***************************************************************************)
\* A faulty variant: the width is tested first.
make_fit_width_first(image, media_width) ==
    LET expected_height == ToPrintWidth(media_width) IN
    IF image.width = expected_height
    THEN <<[image EXCEPT !.width = image.height, !.height = image.width,
                         !.rot = ~image.rot]>>
    ELSE IF image.height = expected_height THEN <<image>> ELSE <<>>

\* make_fit: <<>> stands for None, <<image>> for a returned bitmap.
make_fit(image, media_width) ==
    LET expected_height == ToPrintWidth(media_width) IN
    IF image.height # expected_height
    THEN IF image.width # expected_height
         THEN <<>>
         ELSE <<[image EXCEPT !.width = image.height, !.height = image.width,
                              !.rot = ~image.rot]>>
    ELSE <<image>>

SupportedModes == {"1", "L", "RGB", "RGBA", "P"}

\* select_raster_channel, for a mode of SupportedModes.
select_raster_channel(image) ==
    LET m == IF image.mode = "P" THEN "RGB" ELSE image.mode IN
    CASE m = "1" -> image
      [] m = "L" -> [image EXCEPT !.lut = "lt255"]
      [] m \in {"RGB", "RGBA"} -> [image EXCEPT !.mode = "L", !.lut = "lt128"]

\* prepare_image: the prepared bitmap, or the error it raises.
prepare_image(image, media_width) ==
    IF media_width \notin SupportedWidths
    THEN [err |-> "KeyError"]
    ELSE LET fit == make_fit(image, media_width) IN
         IF fit = <<>>
         THEN [err |-> "AttributeError: dimension"]
         ELSE IF fit[1].mode \notin SupportedModes
              THEN [err |-> "AttributeError: color space"]
              ELSE [err |-> "", image |-> select_raster_channel(fit[1])]

\* b'\x00' * n
Zeros(n) == [i \in 1..n |-> 0]

\* A faulty variant: the trailing margin is left out.
RasterColumnNoTrailingMargin(prepared_image, column, margin) ==
    Zeros(margin)
    \o [r \in 1..prepared_image.height |->
          IF getpixel(prepared_image, column, r - 1) # 0 THEN 255 ELSE 0]

\* raster_image, lines 98-106: what one iteration of the loop over the
\* columns appends to the buffer.
RasterColumn(prepared_image, column, margin) ==
    Zeros(margin)
    \o [r \in 1..prepared_image.height |->
          IF getpixel(prepared_image, column, r - 1) # 0 THEN 255 ELSE 0]
    \o Zeros(margin)

\* raster_image, lines 94-106: the buffer after the columns from `column' on
\* have been appended to `buffer'.
RECURSIVE RasterColumns(_, _, _, _)
RasterColumns(buffer, prepared_image, column, margin) ==
    IF column >= prepared_image.width THEN buffer
    ELSE RasterColumns(buffer \o RasterColumn(prepared_image, column, margin),
                       prepared_image, column + 1, margin)

\* raster_image's buffer, for a media width of the margin table.
RasterBuffer(prepared_image, media_width) ==
    RasterColumns(<<>>, prepared_image, 0, MarginTable[media_width])

\* A faulty variant: the bits are packed from the low end.
RECURSIVE PackBitsLsbFirst(_, _, _)
PackBitsLsbFirst(buffer, i, j) ==
    IF j = GROUP THEN 0
    ELSE (IF buffer[i + j + 1] > 0 THEN 2 ^ j ELSE 0) + PackBitsLsbFirst(buffer, i, j + 1)

\* The value of the output byte compress_buffer builds from the group that
\* starts at i (0-based), from its j-th byte on.
RECURSIVE PackBits(_, _, _)
PackBits(buffer, i, j) ==
    IF j = GROUP THEN 0
    ELSE (IF buffer[i + j + 1] > 0 THEN 2 ^ (7 - j) ELSE 0) + PackBits(buffer, i, j + 1)

\* A faulty variant: a final partial group is dropped without an error.
compress_buffer_truncating(buffer) ==
    [err |-> "",
     bits |-> [g \in 1..(Len(buffer) \div GROUP) |-> PackBits(buffer, (g - 1) * GROUP, 0)]]

\* compress_buffer: range(0, len(buffer), 8) starts a group at every
\* multiple of 8 below the length, and buffer[i + j] raises IndexError in a
\* group that has fewer than 8 bytes.
compress_buffer(buffer) ==
    LET groups == (Len(buffer) + GROUP - 1) \div GROUP IN
    IF \E g \in 1..groups : (g - 1) * GROUP + GROUP > Len(buffer)
    THEN [err |-> "IndexError"]
    ELSE [err |-> "",
          bits |-> [g \in 1..groups |-> PackBits(buffer, (g - 1) * GROUP, 0)]]

\* raster_image: the margin lookup raises KeyError in the first iteration
\* for a media width the table does not have.
raster_image(prepared_image, media_width) ==
    IF prepared_image.width > 0 /\ media_width \notin SupportedWidths
    THEN [err |-> "KeyError"]
    ELSE compress_buffer(IF prepared_image.width > 0
                         THEN RasterBuffer(prepared_image, media_width)
                         ELSE <<>>)

(***************************************************************************)
(* The session and the transport double.                                   *)
(***************************************************************************)
VARIABLES
    env,            \* the harness: "session", "errors" or "dead" (see below)
    constructed,    \* __init__ has returned
    op,             \* the public call in progress, or the last one
    pc,             \* where the session is inside it; "done": the call has
                    \* returned or raised; "idle": ready for a call
    outcome,        \* of the last call: "none", "returned" or "raised"
    error,          \* the exception the last call raised
    media_width, media_type, tape_color, text_color,   \* the cached status
    length,         \* __write: bytes of the current buffer accepted so far
    data, margin_px, is_last_page,   \* print_data: its arguments
    ridx,           \* print_data: the raster command being written
    fill,           \* print_data: filler frames written
    npages,         \* print_images: len(images)
    images,         \* print_images: the pages the loop has taken from its argument
    page,           \* print_images: pages taken from `images'
    pages_left,     \* print_images: its local
    log,            \* the transport's calls during the execution of
                    \* update_status or print_data in progress (or the last)
    sent,           \* the buffers written completely during the client's call
    odd,            \* unexpected, non-final answers the transport has given
    call,           \* a direct call of a function of raster.py: the function
                    \* and its arguments
    ret             \* what that call returned or raised

vars == <<env, constructed, op, pc, outcome, error, media_width,
          media_type, tape_color, text_color, length, data, margin_px,
          is_last_page, ridx, fill, npages, images, page, pages_left, log, sent, odd,
          call, ret>>

status_fields == <<media_width, media_type, tape_color, text_color>>
pd_locals == <<data, margin_px, is_last_page, ridx, fill>>
pi_locals == <<npages, images, page, pages_left>>
harness == <<env, call, ret>>
client == <<harness, constructed, op>>

(***************************************************************************)
(* Status replies.  A reply is its length and the bytes at the offsets the *)
(* session looks at; a byte at an offset >= len does not exist.            *)
(***************************************************************************)
Reply(n, w, t, tc, xc, st, b1, b2) ==
    [len |-> n, mw |-> w, mt |-> t, tape |-> tc, text |-> xc, st |-> st,
     e1 |-> b1, e2 |-> b2]

EmptyReply == Reply(0, 0, 0, 0, 0, 0, 0, 0)

\* A full frame that carries only a status type and the two error bytes.
Notice(st, b1, b2) == Reply(STATUS_MESSAGE_LENGTH, 12, 1, 1, 8, st, b1, b2)

\* What the transport may answer to the read of update_status.
StatusReplies ==
    { EmptyReply,
      Reply(STATUS_MESSAGE_LENGTH, 12, 1, 1, 8, ST_REPLY, 0, 0),
      Reply(STATUS_MESSAGE_LENGTH, 24, 3, 4, 1, ST_REPLY, 0, 0),
      Reply(STATUS_MESSAGE_LENGTH, 0, 0, 255, 255, ST_REPLY, 1, 0),
      Reply(STATUS_MESSAGE_LENGTH, 24, 3, 99, 1, ST_REPLY, 0, 0),
      Reply(OFF_MEDIA_TYPE, 24, 3, 4, 1, ST_REPLY, 0, 0),
      Reply(OFF_TEXT_COLOR + 1, 24, 3, 4, 1, ST_REPLY, 0, 0) }

\* Subsets of a set of bit masks, as byte values.
RECURSIVE SumOf(_)
SumOf(S) == IF S = {} THEN 0 ELSE LET x == CHOOSE x \in S : TRUE IN x + SumOf(S \ {x})

BytesOver(bits) == { SumOf(S) : S \in SUBSET bits }

\* What the transport may answer to a polling read of print_data.
PollReplies ==
    IF env = "errors"
    THEN { Notice(ST_PRINTING_COMPLETED, 0, 0) }
         \cup { Notice(ST_ERROR_OCCURRED, b1, b2) :
                  b1 \in BytesOver({1, 2, 4, 8, 64}), b2 \in BytesOver({1, 2, 16, 32}) }
    ELSE { EmptyReply,
           Notice(ST_REPLY, 0, 0),
           Notice(ST_PHASE_CHANGE, 0, 0),
           Notice(ST_PRINTING_COMPLETED, 0, 0),
           Notice(ST_ERROR_OCCURRED, 0, 0),
           Notice(ST_ERROR_OCCURRED, 77, 0),
           Notice(ST_ERROR_OCCURRED, 0, 48),
           Notice(ST_ERROR_OCCURRED, 2, 0),
           Reply(OFF_STATUS_TYPE, 12, 1, 1, 8, 0, 0, 0),
           Reply(OFF_STATUS_TYPE + 1, 12, 1, 1, 8, ST_PRINTING_COMPLETED, 0, 0) }

\* What the transport may answer to the read that follows PRINTING_COMPLETED;
\* the phase-change notification is the expected answer.
AbsorbReplies ==
    { Notice(ST_PHASE_CHANGE, 0, 0), EmptyReply, Notice(ST_ERROR_OCCURRED, 1, 0) }

\* The counts a transport write of `size' bytes may return.
WriteReturns(size) == {0, size \div 2, size}

(***************************************************************************)
(* The harness.  "session" bounds the unexpected answers by MaxOdd,        *)
(* "errors" gives none but every combination of error flags, and "dead"    *)
(* (the liveness specification) gives any number and keeps no record.      *)
(***************************************************************************)
OddAllowed == env = "dead" \/ (env = "session" /\ odd < MaxOdd)

Record(e) == IF env = "dead" THEN log ELSE Append(log, e)

Delivered(f) == IF env = "dead" THEN sent ELSE Append(sent, f)

CountOdd(isOdd) == IF isOdd /\ env # "dead" THEN odd + 1 ELSE odd

NoFrame == Frame("", <<>>)

\* A transport call as recorded: ret is the count returned (the length of
\* the reply for a read), -1 when the transport raised USBError.
WriteCall(f, o, s, r) ==
    [op |-> "write", frame |-> f, off |-> o, size |-> s, ret |-> r, reply |-> EmptyReply]

ReadCall(n, r, rep) ==
    [op |-> "read", frame |-> NoFrame, off |-> 0, size |-> n, ret |-> r, reply |-> rep]

NoError == [type |-> "", msg |-> <<>>]

Exception(t, m) == [type |-> t, msg |-> m]

(***************************************************************************)
(* The public calls.                                                       *)
(***************************************************************************)
Images ==
    { Image(1, 70, "1", "stripes"),
      Image(70, 2, "RGB", "grey"),
      Image(1, 128, "L", "grey"),
      Image(1, 70, "CMYK", "black") }

\* The raster data a client hands to print_data directly.
DataChoices ==
    { <<>>,
      raster_image(Image(1, 70, "1", "stripes"), 12).bits,
      raster_image(Image(2, 128, "1", "white"), 24).bits }

\* A call starts, with its arguments.
Enter(o, d, m, last, n) ==
    /\ op' = o
    /\ UNCHANGED <<outcome, error, log, sent, odd, length>>
    /\ data' = d
    /\ margin_px' = m
    /\ is_last_page' = last
    /\ ridx' = 0
    /\ fill' = 0
    /\ npages' = n
    /\ images' = <<>>
    /\ page' = 0
    /\ pages_left' = 0

\* __init__ (after find_printers) and __initialize: update_status().
Construct ==
    /\ ~constructed
    /\ pc = "idle"
    /\ outcome = "none"
    /\ Enter("__init__", <<>>, 0, TRUE, 0)
    /\ pc' = "us_invalidate"
    /\ UNCHANGED <<harness, constructed, status_fields>>

CallUpdateStatus ==
    /\ constructed
    /\ pc = "idle"
    /\ Enter("update_status", <<>>, 0, TRUE, 0)
    /\ pc' = "us_invalidate"
    /\ UNCHANGED <<harness, constructed, status_fields>>

CallPrintData ==
    /\ constructed
    /\ pc = "idle"
    /\ \E d \in DataChoices, m \in Margins, last \in BOOLEAN :
          Enter("print_data", d, m, last, 0)
    /\ pc' = "pd_dynamic"
    /\ UNCHANGED <<harness, constructed, status_fields>>

\* print_images up to its call of update_status.  The argument `images' is
\* n bitmaps of the client's choice; the model draws each of them when the
\* loop takes it, which no step before that can tell from drawing it here.
CallPrintImages ==
    /\ constructed
    /\ pc = "idle"
    /\ \E n \in 0..MaxPages, m \in Margins :
          Enter("print_images", <<>>, m, TRUE, n)
    /\ pc' = "us_invalidate"
    /\ UNCHANGED <<harness, constructed, status_fields>>

(***************************************************************************)
(* Leaving a call.                                                         *)
(***************************************************************************)
\* A faulty variant: print_images swallows the exception and goes on with
\* the next page.
RaiseAndGoOn(e) ==
    /\ pc' = IF op = "print_images" THEN "pi_loop" ELSE "done"
    /\ outcome' = "raised"
    /\ error' = e

\* raise: the exception leaves every frame up to the client.
Raise(e) ==
    /\ pc' = "done"
    /\ outcome' = "raised"
    /\ error' = e

\* update_status returns: to its caller print_images, or to the client (a
\* returning __initialize ends __init__).
ReturnFromUpdateStatus ==
    IF op = "print_images"
    THEN /\ pc' = "pi_loop"
         /\ pages_left' = npages
         /\ UNCHANGED <<outcome, constructed>>
    ELSE /\ pc' = "done"
         /\ outcome' = "returned"
         /\ constructed' = TRUE
         /\ UNCHANGED pages_left

\* A faulty variant: no `break' after the absorbing read.
ReturnFromPrintDataNoBreak == pc' = "pd_poll" /\ UNCHANGED outcome

\* A faulty variant: print_images refreshes the status after every page.
ReturnFromPrintDataRefresh ==
    IF op = "print_images"
    THEN pc' = "us_invalidate" /\ UNCHANGED outcome
    ELSE pc' = "done" /\ outcome' = "returned"

\* print_data returns: to the loop of print_images, or to the client.
ReturnFromPrintData ==
    IF op = "print_images"
    THEN pc' = "pi_loop" /\ UNCHANGED outcome
    ELSE pc' = "done" /\ outcome' = "returned"

(***************************************************************************)
(* __write: one transport write call per step.                             *)
(***************************************************************************)
WriteSites ==
    { "us_invalidate", "us_initialize", "us_request",
      "pd_dynamic", "pd_notify", "pd_info", "pd_mode", "pd_advanced",
      "pd_margin", "pd_compression", "pd_raster", "pd_filler", "pd_terminal" }

\* A faulty variant: the two terminal commands exchanged.
TerminalCommandSwapped(last) ==
    IF last THEN print_without_feeding ELSE print_with_feeding

\* print_data, lines 128-131: the terminal print command.
TerminalCommand(last) ==
    IF last THEN print_with_feeding ELSE print_without_feeding

\* A faulty variant: one filler fewer.
MoreFillersShort(f) == f + 1 < FILLER_COUNT - 1

\* print_data, line 125: for _ in range(6), after f + 1 filler writes.
MoreFillers(f) == f + 1 < FILLER_COUNT

\* The buffer the session is writing at each place of update_status and
\* print_data.
CurFrame ==
    CASE pc = "us_invalidate" -> invalidate
      [] pc = "us_initialize" -> initialize
      [] pc = "us_request" -> status_information_request
      [] pc = "pd_dynamic" -> enter_dynamic_command_mode
      [] pc = "pd_notify" -> enable_status_notification
      [] pc = "pd_info" -> print_information(data, media_width)
      [] pc = "pd_mode" -> set_mode
      [] pc = "pd_advanced" -> set_advanced_mode
      [] pc = "pd_margin" -> margin_amount(margin_px)
      [] pc = "pd_compression" -> set_compression_mode
      [] pc = "pd_raster" -> gen_raster_commands(data)[ridx]
      [] pc = "pd_filler" -> filler
      [] pc = "pd_terminal" -> TerminalCommand(is_last_page)

\* Program order: the place after a completed write at place p, with the
\* loop counters there; r is the raster command just written, f the fillers
\* written before this one.
Succ(p, d, r, f) ==
    LET at(q) == [pc |-> q, ridx |-> r, fill |-> f]
        raster_or_filler(n) ==
            IF n <= RasterLineCount(d)
            THEN [pc |-> "pd_raster", ridx |-> n, fill |-> 0]
            ELSE [pc |-> "pd_filler", ridx |-> r, fill |-> 0]
    IN CASE p = "us_invalidate" -> at("us_initialize")
         [] p = "us_initialize" -> at("us_request")
         [] p = "us_request" -> at("us_read")
         [] p = "pd_dynamic" -> at("pd_notify")
         [] p = "pd_notify" -> at("pd_info")
         [] p = "pd_info" -> at("pd_mode")
         [] p = "pd_mode" -> at("pd_advanced")
         [] p = "pd_advanced" -> at("pd_margin")
         [] p = "pd_margin" -> at("pd_compression")
         [] p = "pd_compression" -> raster_or_filler(1)
         [] p = "pd_raster" -> raster_or_filler(r + 1)
         [] p = "pd_filler" ->
               IF MoreFillers(f)
               THEN [pc |-> "pd_filler", ridx |-> r, fill |-> f + 1]
               ELSE [pc |-> "pd_terminal", ridx |-> r, fill |-> f + 1]
         [] p = "pd_terminal" -> at("pd_poll")

\* A faulty variant: the rest of the buffer in one call.
ChunkSizeUncapped == FrameLen(CurFrame) - length

\* data[length:(length+0x40)]: the size of the chunk handed to the transport.
ChunkSize == Min(PACKET_SIZE, FrameLen(CurFrame) - length)

WriteTimeoutError == Exception("RuntimeError", <<"IO timeout while writing to printer">>)

\* The loop body of __write with the transport returning n, and the loop
\* test that follows it.
WriteLoop(n) ==
    LET l == length + n IN
    IF l = 0
    THEN /\ Raise(WriteTimeoutError)
         /\ UNCHANGED <<length, ridx, fill, sent>>
    ELSE IF l < FrameLen(CurFrame)
         THEN /\ length' = l
              /\ UNCHANGED <<pc, outcome, error, ridx, fill, sent>>
         ELSE LET s == Succ(pc, data, ridx, fill) IN
              /\ length' = 0
              /\ sent' = Delivered(CurFrame)
              /\ pc' = s.pc
              /\ ridx' = s.ridx
              /\ fill' = s.fill
              /\ UNCHANGED <<outcome, error>>

\* self._dev.write(...) returns a count.
Write ==
    /\ pc \in WriteSites
    /\ \E n \in WriteReturns(ChunkSize) :
          LET isOdd == n < ChunkSize /\ length + n # 0 IN
          /\ isOdd => OddAllowed
          /\ log' = Record(WriteCall(CurFrame, length, ChunkSize, n))
          /\ odd' = CountOdd(isOdd)
          /\ WriteLoop(n)
    /\ UNCHANGED <<client, status_fields, data, margin_px, is_last_page, pi_locals>>

\* self._dev.write(...) raises USBError, which __write lets through.
WriteRaises ==
    /\ pc \in WriteSites
    /\ log' = Record(WriteCall(CurFrame, length, ChunkSize, -1))
    /\ Raise(Exception("USBError", <<>>))
    /\ UNCHANGED <<client, status_fields, length, pd_locals, pi_locals, sent, odd>>

(***************************************************************************)
(* __read                                                                  *)
(***************************************************************************)
ReadSites == { "us_read", "pd_poll", "pd_absorb" }

ReadLength == IF pc = "us_read" THEN STATUS_MESSAGE_LENGTH ELSE READ_DEFAULT_LENGTH

ReadTimeoutError == Exception("RuntimeError", <<"IO timeout while reading from printer">>)

\* self._dev.read(...) raises USBError.
ReadRaises ==
    /\ pc \in ReadSites
    /\ log' = Record(ReadCall(ReadLength, -1, EmptyReply))
    /\ Raise(ReadTimeoutError)
    /\ UNCHANGED <<client, status_fields, length, pd_locals, pi_locals, sent, odd>>

(***************************************************************************)
(* update_status, from the read of a reply on.                             *)
(***************************************************************************)
\* Lines 91-94 on a non-empty reply r: the four assignments in order, each
\* of which may raise and leave the later fields as they were.
DecodeStatus(r, old) ==
    IF r.len <= OFF_MEDIA_WIDTH
    THEN [f |-> old, err |-> "IndexError"]
    ELSE LET f1 == [old EXCEPT ![1] = r.mw] IN
    IF r.len <= OFF_MEDIA_TYPE
    THEN [f |-> f1, err |-> "IndexError"]
    ELSE IF r.mt \notin MediaTypeCodes
    THEN [f |-> f1, err |-> "ValueError"]
    ELSE LET f2 == [f1 EXCEPT ![2] = r.mt] IN
    IF r.len <= OFF_TAPE_COLOR
    THEN [f |-> f2, err |-> "IndexError"]
    ELSE IF r.tape \notin TapeColorCodes
    THEN [f |-> f2, err |-> "ValueError"]
    ELSE LET f3 == [f2 EXCEPT ![3] = r.tape] IN
    IF r.len <= OFF_TEXT_COLOR
    THEN [f |-> f3, err |-> "IndexError"]
    ELSE IF r.text \notin TextColorCodes
    THEN [f |-> f3, err |-> "ValueError"]
    ELSE [f |-> [f3 EXCEPT ![4] = r.text], err |-> ""]

\* A faulty variant: after an empty read, read again without a new request.
AfterEmptyReadNoRequest == "us_read"

\* Lines 86-89: after an empty read `while len(received) == 0' runs its body
\* again, from the request.
AfterEmptyRead == "us_request"

UsRead ==
    /\ pc = "us_read"
    /\ \E r \in StatusReplies :
          /\ r.len = 0 => OddAllowed
          /\ log' = Record(ReadCall(STATUS_MESSAGE_LENGTH, r.len, r))
          /\ odd' = CountOdd(r.len = 0)
          /\ IF r.len = 0
             THEN /\ pc' = AfterEmptyRead
                  /\ UNCHANGED <<status_fields, outcome, error, constructed, pages_left>>
             ELSE LET d == DecodeStatus(r, status_fields) IN
                  /\ media_width' = d.f[1]
                  /\ media_type' = d.f[2]
                  /\ tape_color' = d.f[3]
                  /\ text_color' = d.f[4]
                  /\ IF d.err = ""
                     THEN ReturnFromUpdateStatus /\ UNCHANGED error
                     ELSE Raise(Exception(d.err, <<>>)) /\ UNCHANGED <<constructed, pages_left>>
    /\ UNCHANGED <<harness, op, length, pd_locals, npages, images, page, sent>>

(***************************************************************************)
(* print_data, from the polling loop on.                                   *)
(***************************************************************************)
\* x & mask, for a one-bit mask.
BitSet(x, mask) == (x \div mask) % 2 = 1

\* A faulty variant: only the first flag found is reported.
ErrorMessageFirstOnly(res) ==
    LET piece(b, mask, name) == IF BitSet(b, mask) THEN <<name, "|">> ELSE <<>>
        m1 == IF res.e1 # 0
              THEN piece(res.e1, 1, "no media") \o piece(res.e1, 4, "cutter jam")
                   \o piece(res.e1, 8, "low batteries")
                   \o piece(res.e1, 64, "high-voltage adapter")
              ELSE <<>>
        m2 == IF res.e2 # 0
              THEN piece(res.e2, 1, "wrong media (check size)")
                   \o piece(res.e2, 16, "cover open") \o piece(res.e2, 32, "overheating")
              ELSE <<>>
        m == m1 \o m2
    IN IF Len(m) > 0 THEN SubSeq(m, 1, 1) ELSE m

\* Lines 140-159: error_message as the pieces appended to it, "|" being the
\* separator each piece ends with; [:-1] drops the last separator.
ErrorMessage(res) ==
    LET piece(b, mask, name) == IF BitSet(b, mask) THEN <<name, "|">> ELSE <<>>
        m1 == IF res.e1 # 0
              THEN piece(res.e1, 1, "no media") \o piece(res.e1, 4, "cutter jam")
                   \o piece(res.e1, 8, "low batteries")
                   \o piece(res.e1, 64, "high-voltage adapter")
              ELSE <<>>
        m2 == IF res.e2 # 0
              THEN piece(res.e2, 1, "wrong media (check size)")
                   \o piece(res.e2, 16, "cover open") \o piece(res.e2, 32, "overheating")
              ELSE <<>>
        m == m1 \o m2
    IN IF Len(m) > 0 THEN SubSeq(m, 1, Len(m) - 1) ELSE m

\* A reply the loop neither completes nor fails on.
Ignored(res) ==
    \/ res.len = 0
    \/ /\ res.len > OFF_STATUS_TYPE
       /\ res.st \notin {ST_PRINTING_COMPLETED, ST_ERROR_OCCURRED}

\* One iteration of `while True' (lines 132-160) up to the absorbing read.
\* A faulty variant: a reply that should be ignored ends the polling.
IgnoreAsCompleted == pc' = "pd_absorb" /\ UNCHANGED <<outcome, error>>

\* Lines 132-134 and 139: nothing matches the reply, and `while True' goes
\* round.
Ignore == UNCHANGED <<pc, outcome, error>>

PdPoll ==
    /\ pc = "pd_poll"
    /\ \E res \in PollReplies :
          /\ Ignored(res) => OddAllowed
          /\ log' = Record(ReadCall(READ_DEFAULT_LENGTH, res.len, res))
          /\ odd' = CountOdd(Ignored(res))
          /\ IF res.len > 0
             THEN IF res.len <= OFF_STATUS_TYPE
                  THEN Raise(Exception("IndexError", <<>>))
                  ELSE IF res.st = ST_PRINTING_COMPLETED
                  THEN pc' = "pd_absorb" /\ UNCHANGED <<outcome, error>>
                  ELSE IF res.st = ST_ERROR_OCCURRED
                  THEN Raise(Exception("RuntimeError", ErrorMessage(res)))
                  ELSE Ignore
             ELSE Ignore
    /\ UNCHANGED <<client, status_fields, length, pd_locals, pi_locals, sent>>

\* Line 137-138: the read whose result is dropped, and the break.
PdAbsorb ==
    /\ pc = "pd_absorb"
    /\ \E r \in AbsorbReplies :
          LET isOdd == r # Notice(ST_PHASE_CHANGE, 0, 0) IN
          /\ isOdd => OddAllowed
          /\ log' = Record(ReadCall(READ_DEFAULT_LENGTH, r.len, r))
          /\ odd' = CountOdd(isOdd)
    /\ ReturnFromPrintData
    /\ UNCHANGED <<client, status_fields, error, length, pd_locals, pi_locals, sent>>

(***************************************************************************)
(* print_images: the loop over the pages.                                  *)
(***************************************************************************)
\* A faulty variant: every page is printed with the first page's data.
PrintDataArgumentStale(previous, rastered) ==
    IF previous # <<>> THEN previous ELSE rastered

\* Lines 170 and 172: `data' is assigned the page's raster and passed on to
\* print_data; `previous' is what the name held before.
PrintDataArgument(previous, rastered) == rastered

\* One iteration up to the call of print_data, or the error that ends it.
PrintImagesPage ==
    /\ pc = "pi_loop"
    /\ page < npages
    /\ \E next \in Images :
          LET image == prepare_image(next, media_width) IN
          /\ images' = Append(images, next)
          /\ page' = page + 1
          /\ IF image.err # ""
             THEN /\ Raise(Exception(image.err, <<>>))
                  /\ UNCHANGED <<pd_locals, pages_left, log>>
             ELSE LET raster == raster_image(image.image, media_width) IN
                  IF raster.err # ""
                  THEN /\ Raise(Exception(raster.err, <<>>))
                       /\ UNCHANGED <<pd_locals, pages_left, log>>
                  ELSE
                  /\ data' = PrintDataArgument(data, raster.bits)
                  /\ log' = <<>>
                  /\ pages_left' = pages_left - 1
                  /\ is_last_page' = (pages_left' = 0)
                  /\ ridx' = 0
                  /\ fill' = 0
                  /\ pc' = "pd_dynamic"
                  /\ UNCHANGED <<outcome, error, margin_px>>
    /\ UNCHANGED <<client, status_fields, length, npages, sent, odd>>

\* The loop is exhausted: print_images returns.
PrintImagesReturn ==
    /\ pc = "pi_loop"
    /\ page = npages
    /\ pc' = "done"
    /\ outcome' = "returned"
    /\ UNCHANGED <<client, status_fields, error, length, pd_locals, pi_locals, log, sent, odd>>

(***************************************************************************)
(* Between two calls.                                                      *)
(***************************************************************************)
\* The client has seen the call return or raise (an exception of __init__
\* leaves it without a session) and is ready to call again: the call's
\* locals are gone and the transport double starts a new record.
ClientContinues ==
    /\ pc = "done"
    /\ constructed
    /\ pc' = "idle"
    /\ outcome' = "none"
    /\ error' = NoError
    /\ log' = <<>>
    /\ sent' = <<>>
    /\ odd' = 0
    /\ length' = 0
    /\ data' = <<>>
    /\ margin_px' = 0
    /\ is_last_page' = TRUE
    /\ ridx' = 0
    /\ fill' = 0
    /\ npages' = 0
    /\ images' = <<>>
    /\ page' = 0
    /\ pages_left' = 0
    /\ UNCHANGED <<client, status_fields>>

(***************************************************************************)
(* raster.py called directly: a call with its arguments, and one step that *)
(* runs the function.                                                      *)
(***************************************************************************)
BitmapSides == {1, 2, 24, 70}

BitmapModes == {"1", "L", "RGB", "RGBA", "P", "CMYK"}

Pictures == {"white", "black", "stripes", "grey"}

Bitmaps ==
    { Image(w, h, m, p) : w \in BitmapSides, h \in BitmapSides,
                          m \in BitmapModes, p \in Pictures }

\* Media widths, one of them (0) not in the margin table.
MediaWidths == SupportedWidths \cup {0}

\* Groups of 8 bytes: one non-zero byte at each place, none, and all.
GroupPatterns ==
    { [i \in 1..GROUP |-> IF i = k THEN 255 ELSE 0] : k \in 0..GROUP }
    \cup { [i \in 1..GROUP |-> 255] }

\* Byte buffers: every buffer of zero and 0xFF bytes up to MaxBuf bytes,
\* every buffer of up to one group whose non-zero bytes are 1 or 0x80, and
\* buffers of two groups with or without bytes after them.
Buffers ==
    UNION { [1..n -> {0, 255}] : n \in 0..MaxBuf }
    \cup UNION { [1..n -> {0, 1, 128}] : n \in 0..GROUP }
    \cup { g1 \o g2 \o rest : g1 \in GroupPatterns, g2 \in GroupPatterns,
                               rest \in {<<>>, <<255>>, <<0, 255, 0>>} }

NoImage == Image(0, 0, "1", "white")

Call(f, image, w, buffer) == [fn |-> f, image |-> image, media_width |-> w, buffer |-> buffer]

NoCall == Call("none", NoImage, 0, <<>>)

RasterCalls ==
    { Call(f, image, w, <<>>) :
        f \in {"make_fit", "prepare_image", "raster_image"},
        image \in Bitmaps, w \in MediaWidths }
    \cup { Call("compress_buffer", NoImage, 0, buffer) : buffer \in Buffers }

\* What a call gave: err = "" and the value returned (a bitmap as a sequence
\* of at most one bitmap, <<>> being None, or bytes), or the exception;
\* `buffer' is raster_image's local of this name when it was last assigned.
Pending == [err |-> "pending", image |-> <<>>, bits |-> <<>>, buffer |-> <<>>]

Returned(image, bits) == [err |-> "", image |-> image, bits |-> bits, buffer |-> <<>>]

Raised(e) == [err |-> e, image |-> <<>>, bits |-> <<>>, buffer |-> <<>>]

session == <<env, constructed, op, pc, outcome, error, status_fields, length,
             pd_locals, pi_locals, log, sent, odd>>

MakeFit ==
    /\ call.fn = "make_fit"
    /\ ret = Pending
    /\ ret' = IF call.media_width \notin SupportedWidths
              THEN Raised("KeyError")
              ELSE Returned(make_fit(call.image, call.media_width), <<>>)
    /\ UNCHANGED <<session, call>>

PrepareImage ==
    /\ call.fn = "prepare_image"
    /\ ret = Pending
    /\ LET r == prepare_image(call.image, call.media_width) IN
       ret' = IF r.err # "" THEN Raised(r.err) ELSE Returned(<<r.image>>, <<>>)
    /\ UNCHANGED <<session, call>>

RasterImage ==
    /\ call.fn = "raster_image"
    /\ ret = Pending
    /\ LET r == raster_image(call.image, call.media_width)
           buffer == IF call.image.width > 0 /\ call.media_width \in SupportedWidths
                     THEN RasterBuffer(call.image, call.media_width)
                     ELSE <<>>
       IN ret' = [(IF r.err # "" THEN Raised(r.err) ELSE Returned(<<>>, r.bits))
                    EXCEPT !.buffer = buffer]
    /\ UNCHANGED <<session, call>>

CompressBuffer ==
    /\ call.fn = "compress_buffer"
    /\ ret = Pending
    /\ LET r == compress_buffer(call.buffer) IN
       ret' = IF r.err # "" THEN Raised(r.err) ELSE Returned(<<>>, r.bits)
    /\ UNCHANGED <<session, call>>

(***************************************************************************)
(* Specifications.                                                         *)
(***************************************************************************)
InitSession ==
    /\ constructed = FALSE
    /\ op = "none"
    /\ pc = "idle"
    /\ outcome = "none"
    /\ error = NoError
    /\ media_width = NoneVal
    /\ media_type = NoneVal
    /\ tape_color = NoneVal
    /\ text_color = NoneVal
    /\ length = 0
    /\ data = <<>>
    /\ margin_px = 0
    /\ is_last_page = TRUE
    /\ ridx = 0
    /\ fill = 0
    /\ npages = 0
    /\ images = <<>>
    /\ page = 0
    /\ pages_left = 0
    /\ log = <<>>
    /\ sent = <<>>
    /\ odd = 0

Init == env \in {"session", "errors"} /\ InitSession /\ call = NoCall /\ ret = Pending

Next ==
    \/ Construct
    \/ CallUpdateStatus
    \/ CallPrintData
    \/ CallPrintImages
    \/ Write
    \/ WriteRaises
    \/ ReadRaises
    \/ UsRead
    \/ PdPoll
    \/ PdAbsorb
    \/ PrintImagesPage
    \/ PrintImagesReturn
    \/ ClientContinues

Spec == Init /\ [][Next]_vars

\* The transport that may stall for ever; the session itself always takes
\* its next step (it is a sequential program that is never suspended).
InitDead == env = "dead" /\ InitSession /\ call = NoCall /\ ret = Pending

LiveSpec == InitDead /\ [][Next]_vars /\ WF_vars(Next)

\* The functions of raster.py, each called once with arguments of the sets
\* above.
InitRaster == env = "raster" /\ InitSession /\ call \in RasterCalls /\ ret = Pending

NextRaster == MakeFit \/ PrepareImage \/ RasterImage \/ CompressBuffer

RasterSpec == InitRaster /\ [][NextRaster]_vars

(***************************************************************************)
(* Reading the transport's record.                                         *)
(***************************************************************************)
Last(s) == s[Len(s)]

IsRead(e) == e.op = "read"

IsWrite(e) == e.op = "write"

\* The write call that hands over the last byte of its buffer.
Completes(e) == e.op = "write" /\ e.ret >= 0 /\ e.off + e.ret = FrameLen(e.frame)

\* The buffers handed over completely, in order.
FramesWritten(s) ==
    LET t == SelectSeq(s, Completes) IN [i \in 1..Len(t) |-> t[i].frame]

\* The reads that returned, in order.
Reads(s) == SelectSeq(s, LAMBDA e : e.op = "read" /\ e.ret >= 0)

\* print_data has reached `while True' (its reads are the only ones of the
\* default length).
InPollingPhase ==
    \/ pc \in {"pd_poll", "pd_absorb"}
    \/ /\ pc \in {"done", "pi_loop"}
       /\ log # <<>>
       /\ IsRead(Last(log))
       /\ Last(log).size = READ_DEFAULT_LENGTH

(***************************************************************************)
(* C1: in every execution of print_data that reaches the polling phase the *)
(* frames written are, in this order, enter_dynamic_command_mode,          *)
(* enable_status_notification, print_information, set_mode,                *)
(* set_advanced_mode, margin_amount, set_compression_mode, the frames of   *)
(* gen_raster_commands(data) in generator order, six one-byte 0x5A frames  *)
(* and one terminal print command; no read comes before the terminal       *)
(* command has been written, and no write after it.                        *)
(***************************************************************************)
PrintDataFrames(d, m, last, mw) ==
    << Frame("enter_dynamic_command_mode", <<>>),
       Frame("enable_status_notification", <<>>),
       Frame("print_information", <<Len(d), mw>>),
       Frame("set_mode", <<>>),
       Frame("set_advanced_mode", <<>>),
       Frame("margin_amount", <<m>>),
       Frame("set_compression_mode", <<>>) >>
    \o [i \in 1..RasterLineCount(d) |-> RasterCommand(d, i)]
    \o [i \in 1..6 |-> Frame("filler", <<90>>)]
    \o << IF last THEN Frame("print_with_feeding", <<>>)
                  ELSE Frame("print_without_feeding", <<>>) >>

C1_PrintDataOrder ==
    InPollingPhase =>
        LET seg == log
            frames == FramesWritten(seg)
        IN /\ frames = PrintDataFrames(data, margin_px, is_last_page, media_width)
           /\ \A i \in 1..Len(frames) : frames[i].kind = "filler" => FrameLen(frames[i]) = 1
           /\ \A i, j \in 1..Len(seg) : IsRead(seg[i]) /\ IsWrite(seg[j]) => j < i

\* A two-line page has been written in spite of a short write, and the
\* session has read the completion and the notification after it.
C1_Witness ==
    /\ op = "print_data"
    /\ pc = "done"
    /\ outcome = "returned"
    /\ RasterLineCount(data) = 2
    /\ odd = 1
    /\ \E i \in 1..Len(log) : IsWrite(log[i]) /\ 0 < log[i].ret /\ log[i].ret < log[i].size

(***************************************************************************)
(* C2: in a job print_images(pages, margin_px) of n >= 1 pages the         *)
(* terminal commands are issued in page order, one after each page's       *)
(* print_information; pages 1..n-1 use print_without_feeding and page n    *)
(* print_with_feeding; when every page has completed there are n of them,  *)
(* so the feeding command is issued once and is the last one written.      *)
(***************************************************************************)
IsTerminal(f) == f.kind \in {"print_with_feeding", "print_without_feeding"}

C2_FeedingOnLastPage ==
    op = "print_images" =>
        LET marks == SelectSeq(sent,
                               LAMBDA f : f.kind = "print_information" \/ IsTerminal(f))
            terms == SelectSeq(marks, IsTerminal)
        IN /\ Len(terms) <= npages
           /\ \A k \in 1..Len(marks) :
                 IF k % 2 = 1
                 THEN marks[k].kind = "print_information"
                 ELSE marks[k] = IF k \div 2 < npages
                                 THEN Frame("print_without_feeding", <<>>)
                                 ELSE Frame("print_with_feeding", <<>>)
           /\ pc = "done" /\ outcome = "returned" => Len(terms) = npages

\* A job of two different pages has completed.
C2_Witness ==
    /\ op = "print_images"
    /\ pc = "done"
    /\ outcome = "returned"
    /\ npages = 2
    /\ images[1] # images[2]
    /\ Len(SelectSeq(sent, IsTerminal)) = 2

(***************************************************************************)
(* Steps of the polling loop, as the transport's record shows them.        *)
(***************************************************************************)
\* This step is one transport call, added to the record.
OneCall == Len(log') = Len(log) + 1 /\ SubSeq(log', 1, Len(log)) = log

\* This step is a polling read that returns a reply of status type st.
PollReads(st) ==
    /\ pc = "pd_poll"
    /\ OneCall
    /\ IsRead(Last(log'))
    /\ Last(log').ret > OFF_STATUS_TYPE
    /\ Last(log').reply.st = st

\* After this step print_data has returned to its caller.
PrintDataReturns ==
    /\ error' = NoError
    /\ IF op = "print_images"
       THEN pc' = "pi_loop" /\ outcome' = "none"
       ELSE pc' = "done" /\ outcome' = "returned"

\* After this step the call has ended with exception e.
Raises(e) == pc' = "done" /\ outcome' = "raised" /\ error' = e

\* Once print_data is left, nothing is added to its record.
NoCallAfterPrintData == pc \in {"pi_loop", "done"} => log' = log \/ log' = <<>>

(***************************************************************************)
(* C3, as stated: when the polling loop reads a PRINTING_COMPLETED reply,  *)
(* the session performs exactly one more read, whatever it brings, then no *)
(* further read or write, and print_data returns normally.                 *)
(***************************************************************************)
C3_AbsorbThenReturn ==
    [][ /\ PollReads(ST_PRINTING_COMPLETED) => pc' = "pd_absorb"
        /\ pc = "pd_absorb" => OneCall /\ IsRead(Last(log')) /\ PrintDataReturns
        /\ NoCallAfterPrintData ]_vars

(***************************************************************************)
(* C3, amended: when the polling loop reads a PRINTING_COMPLETED reply,    *)
(* the session performs exactly one more read and then no further read or  *)
(* write; if that read returns, whatever it brings, print_data returns     *)
(* normally, and if the transport fails it print_data raises the read      *)
(* timeout error.                                                          *)
(***************************************************************************)
C3_AbsorbThenReturnOrTimeout ==
    [][ /\ PollReads(ST_PRINTING_COMPLETED) => pc' = "pd_absorb"
        /\ pc = "pd_absorb" =>
              /\ OneCall
              /\ IsRead(Last(log'))
              /\ IF Last(log').ret >= 0 THEN PrintDataReturns ELSE Raises(ReadTimeoutError)
        /\ NoCallAfterPrintData ]_vars

\* print_data has returned after reading PRINTING_COMPLETED and then, in
\* place of the notification, an error reply, which it dropped.
C3_Witness ==
    /\ op = "print_data"
    /\ pc = "done"
    /\ outcome = "returned"
    /\ Len(log) >= 2
    /\ log[Len(log) - 1].reply.st = ST_PRINTING_COMPLETED
    /\ IsRead(log[Len(log) - 1])
    /\ Last(log).reply.st = ST_ERROR_OCCURRED

(***************************************************************************)
(* C4: when the polling loop reads an ERROR_OCCURRED reply, print_data     *)
(* raises an error that carries one named condition for every set bit      *)
(* among byte-1 bits 0x01, 0x04, 0x08, 0x40 and byte-2 bits 0x01, 0x10,    *)
(* 0x20, for every combination of them: each set bit once, nothing for a   *)
(* clear bit, byte-1 bits from low to high and then byte-2 bits from low   *)
(* to high.                                                                *)
(***************************************************************************)
ErrorFlags ==
    << <<1, 1, "no media">>, <<1, 4, "cutter jam">>, <<1, 8, "low batteries">>,
       <<1, 64, "high-voltage adapter">>, <<2, 1, "wrong media (check size)">>,
       <<2, 16, "cover open">>, <<2, 32, "overheating">> >>

FlagIsSet(res, flag) ==
    LET byte == IF flag[1] = 1 THEN res.e1 ELSE res.e2
    IN (byte \div flag[2]) % 2 = 1

\* The names of the flags set in res, in the order of ErrorFlags.
ConditionsOf(res) ==
    LET set == SelectSeq(ErrorFlags, LAMBDA flag : FlagIsSet(res, flag))
    IN [i \in 1..Len(set) |-> set[i][3]]

\* The names joined by the separator "|".
RECURSIVE Joined(_)
Joined(names) ==
    IF Len(names) <= 1 THEN names
    ELSE <<names[1], "|">> \o Joined(Tail(names))

C4_AllErrorFlagsReported ==
    [][ PollReads(ST_ERROR_OCCURRED) =>
          Raises(Exception("RuntimeError", Joined(ConditionsOf(Last(log').reply)))) ]_vars

\* All seven flags were set, together with one that has no name, and the
\* error raised names the seven.
C4_Witness ==
    /\ pc = "done"
    /\ outcome = "raised"
    /\ log # <<>>
    /\ Last(log).reply.st = ST_ERROR_OCCURRED
    /\ Last(log).reply.e1 = 79
    /\ Last(log).reply.e2 = 49
    /\ Len(error.msg) = 13

(***************************************************************************)
(* C5, as stated: an ERROR_OCCURRED reply with both error bytes zero makes *)
(* print_data fail with the condition list [unknown-error], and the        *)
(* session ends in error, not completed.                                   *)
(***************************************************************************)
C5_UnknownError ==
    [][ /\ PollReads(ST_ERROR_OCCURRED)
        /\ Last(log').reply.e1 = 0
        /\ Last(log').reply.e2 = 0
        => Raises(Exception("RuntimeError", <<"unknown-error">>)) ]_vars

(***************************************************************************)
(* C6: when update_status returns after k empty reads and one valid status *)
(* frame, for every k >= 0, it has written invalidate once and initialize  *)
(* once, in that order, before any status request; one                     *)
(* status_information_request write alternates with one read; there are    *)
(* k + 1 status requests in all; and media width, media type, tape colour  *)
(* and text colour are those of the (k+1)-th read.                         *)
(***************************************************************************)
UpdateStatusReturned ==
    \/ op \in {"__init__", "update_status"} /\ pc = "done" /\ outcome = "returned"
    \/ op = "print_images" /\ pc = "pi_loop" /\ page = 0

IsRequest(e) == Completes(e) /\ e.frame.kind = "status_information_request"

C6_StatusRetry ==
    UpdateStatusReturned /\ Last(log).ret = STATUS_MESSAGE_LENGTH =>
        LET frames == FramesWritten(log)
            reads == Reads(log)
            k == Len(reads) - 1
            turns == SelectSeq(log, LAMBDA e : IsRequest(e) \/ IsRead(e))
        IN /\ k >= 0
           /\ frames = <<Frame("invalidate", <<>>), Frame("initialize", <<>>)>>
                       \o [i \in 1..(k + 1) |-> Frame("status_information_request", <<>>)]
           /\ Len(turns) = 2 * (k + 1)
           /\ \A i \in 1..Len(turns) : IF i % 2 = 1 THEN IsRequest(turns[i])
                                                     ELSE IsRead(turns[i])
           /\ \A i \in 1..k : reads[i].ret = 0
           /\ reads[k + 1].ret > 0
           /\ media_width = reads[k + 1].reply.mw
           /\ media_type = reads[k + 1].reply.mt
           /\ tape_color = reads[k + 1].reply.tape
           /\ text_color = reads[k + 1].reply.text

\* update_status has returned the 24 mm tape of the second read, the first
\* one having been empty.
C6_Witness ==
    /\ op = "update_status"
    /\ pc = "done"
    /\ outcome = "returned"
    /\ Len(Reads(log)) = 2
    /\ Reads(log)[1].ret = 0
    /\ media_width = 24
    /\ tape_color = 4

(***************************************************************************)
(* C7, as stated: a transport write call that returns zero bytes written   *)
(* makes the write operation fail with the fatal timeout error, for every  *)
(* chunk of the buffer, later chunks included; a zero-byte write is never  *)
(* retried.                                                                *)
(***************************************************************************)
C7_ZeroWriteIsFatal ==
    \A i \in 1..Len(log) :
        IsWrite(log[i]) /\ log[i].ret = 0 =>
            /\ i = Len(log)
            /\ pc = "done"
            /\ outcome = "raised"
            /\ error = Exception("RuntimeError", <<"IO timeout while writing to printer">>)

(***************************************************************************)
(* C8: in print_images, when preparing, rastering or printing a page fails *)
(* the error reaches the caller, and from then on the job makes no         *)
(* transport call: no frame of a later page is written and nothing is read.*)
(***************************************************************************)
C8_FailureAbortsJob ==
    [][ op = "print_images" /\ op' = "print_images" =>
          /\ outcome' = "raised" => pc' = "done" /\ error' # NoError
          /\ outcome = "raised" =>
                /\ pc' = "idle"
                /\ Len(log') <= Len(log)
                /\ Len(sent') <= Len(sent) ]_vars

\* The first page of two was refused by the printer, and the job has ended
\* with the printer's error after the frames of that one page.
C8_Witness ==
    /\ op = "print_images"
    /\ npages = 2
    /\ page = 1
    /\ pc = "done"
    /\ outcome = "raised"
    /\ error.type = "RuntimeError"
    /\ log # <<>>
    /\ Last(log).reply.st = ST_ERROR_OCCURRED
    /\ Len(SelectSeq(sent, LAMBDA f : f.kind = "print_information")) = 1

(***************************************************************************)
(* C9: a call of print_images refreshes the status (invalidate,            *)
(* initialize, status requests) exactly once, before the first page; from  *)
(* the first page's first command to the end of the job no status frame is *)
(* written and media width, media type, tape colour and text colour do not *)
(* change, so that every page is prepared, rastered and announced with the *)
(* same media width.                                                       *)
(***************************************************************************)
StatusKinds == {"invalidate", "initialize", "status_information_request"}

StatusSites == {"idle", "us_invalidate", "us_initialize", "us_request", "us_read"}

\* The frames written up to the first command of the first page.
RefreshOf(s) ==
    LET pages == {i \in 1..Len(s) : s[i].kind \notin StatusKinds}
        n == IF pages = {} THEN Len(s)
             ELSE (CHOOSE i \in pages : \A j \in pages : i <= j) - 1
    IN SubSeq(s, 1, n)

RefreshedOnce ==
    LET refresh == RefreshOf(sent) IN
    /\ \A i \in (Len(refresh) + 1)..Len(sent) : sent[i].kind \notin StatusKinds
    /\ \A i \in 1..Len(refresh) :
          refresh[i].kind = CASE i = 1 -> "invalidate"
                              [] i = 2 -> "initialize"
                              [] OTHER -> "status_information_request"
    /\ pc \notin StatusSites /\ outcome # "raised" => Len(refresh) >= 3

\* Every page announced so far was announced with the cached media width.
AnnouncedWidth ==
    \A i \in 1..Len(sent) :
        sent[i].kind = "print_information" => sent[i].arg[2] = media_width

\* This step starts a page: its data are the page's bitmap, prepared and
\* rastered for the cached media width; no other step of a page changes them.
PageData ==
    /\ pc = "pi_loop" /\ pc' = "pd_dynamic" =>
          data' = raster_image(prepare_image(Last(images'), media_width).image,
                               media_width).bits
    /\ pc \in (WriteSites \cup ReadSites) \ StatusSites => data' = data

C9_OneRefreshPerJob ==
    [][ op = "print_images" /\ op' = "print_images" =>
          /\ RefreshedOnce'
          /\ AnnouncedWidth'
          /\ PageData
          /\ pc \notin StatusSites => UNCHANGED status_fields ]_vars

\* A job of two pages on 24 mm tape has completed; its refresh needed two
\* status requests.
C9_Witness ==
    /\ op = "print_images"
    /\ pc = "done"
    /\ outcome = "returned"
    /\ npages = 2
    /\ media_width = 24
    /\ Len(RefreshOf(sent)) = 4
    /\ Len(SelectSeq(sent, LAMBDA f : f.kind = "print_information")) = 2

(***************************************************************************)
(* C10, as stated: every call of update_status, print_data and             *)
(* print_images eventually returns or raises, whatever the transport's     *)
(* calls return (empty reads, replies that are neither PRINTING_COMPLETED  *)
(* nor ERROR_OCCURRED, zero-byte writes), as long as each of them returns: *)
(* no call polls or retries forever.                                       *)
(***************************************************************************)
C10_EveryCallEnds ==
    \A o \in {"update_status", "print_data", "print_images"} :
        (op = o /\ pc \notin {"idle", "done"}) ~> (pc = "done")

(***************************************************************************)
(* Direct calls of raster.py.                                              *)
(***************************************************************************)
\* The call of f has returned or raised.
Called(f) == call.fn = f /\ ret # Pending

\* The expected printable height for media width w.
ExpectedHeight(w) == PRINT_HEAD_PINS - 2 * MarginTable[w]

\* The call returned a bitmap of this geometry.
ReturnsBitmap(w, h, rotated) ==
    /\ ret.err = ""
    /\ Len(ret.image) = 1
    /\ ret.image[1].width = w
    /\ ret.image[1].height = h
    /\ ret.image[1].rot = rotated

(***************************************************************************)
(* C11, as stated: prepare_image(bitmap, media_width), E being the         *)
(* expected printable height for media_width: a bitmap of height E comes   *)
(* back with its geometry unchanged (also when its width is E); a bitmap   *)
(* of another height and width E comes back rotated by 90 degrees, with    *)
(* height E; when neither dimension is E the call fails with the dimension *)
(* error and returns no image.                                             *)
(***************************************************************************)
C11_FitOrRotateOrFail ==
    Called("prepare_image") /\ call.media_width \in SupportedWidths =>
        LET E == ExpectedHeight(call.media_width)
            bitmap == call.image
        IN IF bitmap.height = E
           THEN ReturnsBitmap(bitmap.width, bitmap.height, FALSE)
           ELSE IF bitmap.width = E
           THEN ReturnsBitmap(bitmap.height, E, TRUE)
           ELSE ret.err = "AttributeError: dimension" /\ ret.image = <<>>

(***************************************************************************)
(* C11, amended: the same for a bitmap whose colour mode is one of 1, L,   *)
(* RGB, RGBA and P; for a bitmap of any other colour mode the call fails   *)
(* and returns no image: with the unsupported colour space error when one  *)
(* of the two dimensions is E, with the dimension error when neither is.   *)
(***************************************************************************)
C11_FitOrRotateOrFailByMode ==
    Called("prepare_image") /\ call.media_width \in SupportedWidths =>
        LET E == ExpectedHeight(call.media_width)
            bitmap == call.image
            supported == bitmap.mode \in {"1", "L", "RGB", "RGBA", "P"}
        IN IF bitmap.height # E /\ bitmap.width # E
           THEN ret.err = "AttributeError: dimension" /\ ret.image = <<>>
           ELSE IF ~supported
           THEN ret.err = "AttributeError: color space" /\ ret.image = <<>>
           ELSE IF bitmap.height = E
           THEN ReturnsBitmap(bitmap.width, bitmap.height, FALSE)
           ELSE ReturnsBitmap(bitmap.height, E, TRUE)

\* A bitmap 70 wide and 2 high came back 2 wide and 70 high for 12 mm tape.
C11_Witness ==
    /\ Called("prepare_image")
    /\ call.media_width = 12
    /\ call.image.width = 70
    /\ call.image.height = 2
    /\ ReturnsBitmap(2, 70, TRUE)

(***************************************************************************)
(* C12: compress_buffer on a buffer whose length is not a multiple of 8    *)
(* fails with an error and returns nothing; the final partial group is     *)
(* never dropped or padded silently.  The same holds where raster_image    *)
(* hands it such a buffer.                                                 *)
(***************************************************************************)
C12_MisalignedBufferFails ==
    /\ Called("compress_buffer") /\ Len(call.buffer) % 8 # 0 =>
          ret.err # "" /\ ret.bits = <<>>
    /\ Called("raster_image") /\ Len(ret.buffer) % 8 # 0 =>
          ret.err # "" /\ ret.bits = <<>>

\* A buffer of two groups and three bytes was refused.
C12_Witness ==
    /\ Called("compress_buffer")
    /\ Len(call.buffer) = 19
    /\ ret.err = "IndexError"

(***************************************************************************)
(* C17: for every buffer of 8 * m bytes compress_buffer returns m bytes,   *)
(* and bit 7 - j of output byte i is 1 exactly when input byte 8 * i + j   *)
(* is not zero, for 0 <= i < m and 0 <= j < 8; the empty buffer gives the  *)
(* empty output.                                                           *)
(***************************************************************************)
C17_MsbFirstPacking ==
    Called("compress_buffer") /\ Len(call.buffer) % 8 = 0 =>
        LET m == Len(call.buffer) \div 8 IN
        /\ ret.err = ""
        /\ Len(ret.bits) = m
        /\ \A i \in 0..(m - 1), j \in 0..7 :
              ((ret.bits[i + 1] \div 2 ^ (7 - j)) % 2 = 1) <=> (call.buffer[8 * i + j + 1] # 0)

\* Sixteen bytes, of which only the eighth and the ninth are set, gave the
\* two bytes 0x01 and 0x80.
C17_Witness ==
    /\ Called("compress_buffer")
    /\ Len(call.buffer) = 16
    /\ ret.bits = <<1, 128>>

(***************************************************************************)
(* C18: raster_image builds its buffer column by column, in increasing     *)
(* column order; each column is margin[media_width] zero bytes, then one   *)
(* byte per row in increasing row order (0xFF where the pixel at (column,  *)
(* row) is not zero, 0x00 elsewhere), then margin[media_width] zero bytes; *)
(* the buffer has width * (2 * margin[media_width] + height) bytes, and    *)
(* the margin positions carry no ink.                                      *)
(***************************************************************************)
C18_ColumnsBetweenMargins ==
    Called("raster_image") /\ call.media_width \in SupportedWidths =>
        LET bitmap == call.image
            margin == MarginTable[call.media_width]
            stride == 2 * margin + bitmap.height
        IN /\ Len(ret.buffer) = bitmap.width * stride
           /\ \A column \in 0..(bitmap.width - 1), p \in 0..(stride - 1) :
                 ret.buffer[column * stride + p + 1] =
                    IF p < margin \/ p >= margin + bitmap.height
                    THEN 0
                    ELSE IF getpixel(bitmap, column, p - margin) # 0 THEN 255 ELSE 0

\* Two striped columns of 70 rows for 12 mm tape: 256 bytes, ink in both
\* columns.
C18_Witness ==
    /\ Called("raster_image")
    /\ call.media_width = 12
    /\ call.image.width = 2
    /\ call.image.height = 70
    /\ call.image.pat = "stripes"
    /\ Len(ret.buffer) = 256
    /\ ret.buffer[29 + 2] = 255
    /\ ret.buffer[128 + 29 + 2] = 255
    /\ ret.err = ""

(***************************************************************************)
(* The session again.                                                      *)
(***************************************************************************)
\* This step is a read, by update_status or by the polling loop, that
\* returns a reply.
ReadsReply ==
    /\ pc \in {"us_read", "pd_poll"}
    /\ OneCall
    /\ IsRead(Last(log'))
    /\ Last(log').ret >= 0

\* The four status fields as reply r gives them.
FieldsOf(r) == <<r.mw, r.mt, r.tape, r.text>>

(***************************************************************************)
(* C13, as stated: a non-empty status reply shorter than                   *)
(* STATUS_MESSAGE_LENGTH is rejected with an error before any field is     *)
(* taken from it: update_status stores no media width, media type, tape    *)
(* colour or text colour from it, and the polling loop of print_data does  *)
(* not take it for PRINTING_COMPLETED or ERROR_OCCURRED.                   *)
(***************************************************************************)
C13_ShortReplyRejected ==
    [][ /\ ReadsReply
        /\ 0 < Last(log').ret
        /\ Last(log').ret < STATUS_MESSAGE_LENGTH
        => /\ pc' = "done"
           /\ outcome' = "raised"
           /\ UNCHANGED status_fields ]_vars

(***************************************************************************)
(* C14: in a job of several pages the print_information frame written for  *)
(* page i carries the length of page i's own raster bytes and the media    *)
(* width captured at the start of the job, for every i; never the length   *)
(* of another page's raster data.                                          *)
(***************************************************************************)
Announcements(s) == SelectSeq(s, LAMBDA f : f.kind = "print_information")

C14_PageAnnouncesItsOwnData ==
    [][ op = "print_images" /\ pc = "pd_info" /\ pc' = "pd_mode" =>
          LET own == raster_image(prepare_image(images[page], media_width).image,
                                  media_width).bits
              told == Announcements(sent')
          IN /\ Len(told) = page
             /\ Last(sent') = Frame("print_information", <<Len(own), media_width>>)
             /\ \A i \in 1..Len(told) : told[i].arg[2] = told[1].arg[2] ]_vars

\* A job of two pages has completed whose raster data differ in length.
C14_Witness ==
    /\ op = "print_images"
    /\ pc = "done"
    /\ outcome = "returned"
    /\ Len(Announcements(sent)) = 2
    /\ Announcements(sent)[1].arg[1] # Announcements(sent)[2].arg[1]

(***************************************************************************)
(* C15: in the polling phase of print_data an empty read, and a reply      *)
(* whose status type is neither PRINTING_COMPLETED nor ERROR_OCCURRED, are *)
(* ignored: the session writes nothing, changes none of its cached status  *)
(* fields, raises nothing, and reads again.                                *)
(***************************************************************************)
C15_OtherRepliesIgnored ==
    [][ /\ pc = "pd_poll" /\ OneCall => IsRead(Last(log'))
        /\ /\ pc = "pd_poll"
           /\ OneCall
           /\ \/ Last(log').ret = 0
              \/ /\ Last(log').ret > OFF_STATUS_TYPE
                 /\ Last(log').reply.st \notin {ST_PRINTING_COMPLETED, ST_ERROR_OCCURRED}
           => /\ pc' = "pd_poll"
              /\ UNCHANGED <<status_fields, outcome, error, sent, length>> ]_vars

\* print_data has returned after an empty read or a reply of another type
\* (here a phase change) and the completion read after it.
C15_Witness ==
    /\ op = "print_data"
    /\ pc = "done"
    /\ outcome = "returned"
    /\ \E i \in 1..(Len(log) - 2) :
          /\ IsRead(log[i])
          /\ log[i].reply.st = ST_PHASE_CHANGE
          /\ log[i].ret > 0
          /\ log[i + 1].reply.st = ST_PRINTING_COMPLETED

(***************************************************************************)
(* C16, as stated: the four cached status fields always come from one and  *)
(* the same status reply; after any sequence of update_status calls, also  *)
(* calls that fail while decoding a reply, they are never a mix of values  *)
(* of two replies.  (Every read of update_status either leaves the four    *)
(* fields as they were or replaces all four by the reply's.)               *)
(***************************************************************************)
C16_FieldsFromOneReply ==
    [][ constructed /\ pc = "us_read" =>
          \/ UNCHANGED status_fields
          \/ OneCall /\ status_fields' = FieldsOf(Last(log').reply) ]_vars

(***************************************************************************)
(* C19: the write operation hands the transport at most 0x40 bytes per     *)
(* call; each call starts at the offset equal to the number of bytes the   *)
(* transport has accepted so far, so that a short write is followed by a   *)
(* call that resumes at the first unsent byte; and the operation returns   *)
(* only when the bytes accepted are the whole buffer, in order, none       *)
(* skipped or repeated, its count then being the buffer's length.          *)
(***************************************************************************)
\* Call i of the record continues the buffer of the call before it.
Resumes(i) == i > 1 /\ IsWrite(log[i - 1]) /\ ~Completes(log[i - 1])

C19_ChunkedWrite ==
    /\ \A i \in 1..Len(log) :
          IsWrite(log[i]) =>
             /\ log[i].size <= 64
             /\ log[i].ret <= log[i].size
             /\ log[i].off + log[i].size <= FrameLen(log[i].frame)
             /\ log[i].size = 64 \/ log[i].off + log[i].size = FrameLen(log[i].frame)
             /\ IF Resumes(i)
                THEN /\ log[i].frame = log[i - 1].frame
                     /\ log[i - 1].ret >= 0
                     /\ log[i].off = log[i - 1].off + log[i - 1].ret
                ELSE log[i].off = 0
    /\ pc \in WriteSites =>
          length = IF log # <<>> /\ IsWrite(Last(log)) /\ ~Completes(Last(log))
                   THEN Last(log).off + Last(log).ret
                   ELSE 0
    /\ pc \notin WriteSites /\ pc # "done" /\ log # <<>> /\ IsWrite(Last(log)) =>
          Completes(Last(log))

\* A short write of the first chunk of a buffer was followed by a call for
\* the rest, which completed the buffer.
C19_Witness ==
    \E i \in 1..(Len(log) - 1) :
        /\ IsWrite(log[i])
        /\ log[i].off = 0
        /\ 0 < log[i].ret
        /\ log[i].ret < log[i].size
        /\ log[i + 1].off = log[i].ret
        /\ Completes(log[i + 1])

=============================================================================
